---- MODULE Spec2Model ----
(***************************************************************************)
(* VFFS: the in-memory inode store of src/main.rs and its FUSE request     *)
(* handlers, one action per handler.  Handlers run one at a time to        *)
(* completion (fuser::mount2 serves requests on the calling thread).       *)
(***************************************************************************)
EXTENDS Integers, Sequences, FiniteSets, TLC

\* ------------------------------------------------------------------ bounds
\* Largest inode id the serial counter may hand out (the counter is a u64).
MaxId == 3
\* The wall clock time_now() reads runs from 0 to MaxTime.
MaxTime == 1
\* Longest content buffer explored (the buffer itself is unbounded).
MaxContent == 2

\* ------------------------------------------------------- program constants
FUSE_ROOT_ID == 1
MAX_NODE_NAME_LENGTH == 255
\* (mutant) the serial counter starting at the root's id
SerialFromRoot == FUSE_ROOT_ID
\* static mut INODE_SERIAL_NUMER: u64 = 2
INODE_SERIAL_NUMER_Init == 2
\* get_max_memory() / get_max_file_size(): set once from the command line
\* (mb * 1024 * 1024, "-m 1 -s 1"); the model counts sizes in MiB, one
\* content byte standing for one MiB, so that TLC can enumerate them.
MAX_MEMORY == 1
MAX_FILE_SIZE == 1
\* size_of::<Inode>() + size_of::<Directory>(): positive, layout dependent.
SizeOfInodeAndDirectory == 1
\* Inode::new: mode 0o777
RootMode == 511

Times == 0..MaxTime
Ids == 1..MaxId

VARIABLES
    inodes,           \* VFFS.inodes: HashMap<u64, Inode>
    size,             \* VFFS.size: u64, held as its two's-complement reading:
                      \* a negative v stands for the u64 value 2^64 + v
    serial,           \* INODE_SERIAL_NUMER
    overflow_checks,  \* build profile: TRUE panics on integer overflow (debug),
                      \* FALSE wraps (release)
    alive,            \* FALSE once a handler has panicked
    now,              \* the wall clock, as time_now() reads it
    last              \* the last handler call and its reply

vars == <<inodes, size, serial, overflow_checks, alive, now, last>>

\* ------------------------------------------------------------ u64 helpers
\* a > b for a u64 held as above and a small natural b
U64Gt(a, b) == a < 0 \/ a > b

\* a - b overflows (a: counter as above, b: small natural)
SubOverflows(a, b) == a >= 0 /\ b > a

\* a + b overflows
AddOverflows(a, b) == a < 0 /\ a + b >= 0

\* ((m & !u) as u16): bitwise, low bit first
RECURSIVE AndNot(_, _, _)
AndNot(m, u, k) ==
    IF k = 0 THEN 0
    ELSE ((m % 2) * (1 - (u % 2))) + 2 * AndNot(m \div 2, u \div 2, k - 1)

\* (mutant) a cast that keeps the twelve permission bits only
AsPermissionBits(x) == x % 4096

AsU16(x) == x % 65536

MaskedMode(mode, umask) == AsU16(AndNot(mode, umask, 31))

\* ------------------------------------------------------------ inode model
IsDirectory(inode) == inode.kind = "Directory"

\* Inode::update_changes with now = t
UpdateChanges(inode, t) ==
    [inode EXCEPT !.updated_at = t, !.metadata_change_at = t]

\* Directory::find_node_by_name: position of the first entry named name, 0 if none
RECURSIVE FindFrom(_, _, _)
FindFrom(nodes, name, i) ==
    IF i > Len(nodes) THEN 0
    ELSE IF nodes[i][2] = name THEN i
    ELSE FindFrom(nodes, name, i + 1)

\* (mutant) a search that finds no entry
FindNothing(nodes, name) == 0

FindNodeByName(nodes, name) == FindFrom(nodes, name, 1)

\* (mutant) an entry put at the head of the list
AddNodeFirst(nodes, entry) == <<entry>> \o nodes

\* Directory::add_node
AddNode(nodes, entry) == Append(nodes, entry)

\* (mutant) a retain that drops nothing
RetainEverything(nodes, x) == nodes

\* dir.nodes.retain(|(_, n, _)| n != name)
RetainNameNot(nodes, name) == SelectSeq(nodes, LAMBDA e : e[2] # name)

\* dir.nodes.retain(|(id, _, _)| *id != x)
RetainIdNot(nodes, x) == SelectSeq(nodes, LAMBDA e : e[1] # x)

\* Inode::append_file_to_directory
AppendFileToDirectory(inode, entry) ==
    IF IsDirectory(inode)
    THEN [inode EXCEPT !.nodes = AddNode(inode.nodes, entry)]
    ELSE inode

\* String::from_utf8_lossy on bytes drawn from ASCII and 0xFF: an ASCII byte
\* is kept, 0xFF is never valid UTF-8 and becomes U+FFFD (EF BF BD).
RECURSIVE FromUtf8Lossy(_)
FromUtf8Lossy(data) ==
    IF data = <<>> THEN <<>>
    ELSE (IF Head(data) < 128 THEN <<Head(data)>> ELSE <<239, 191, 189>>)
         \o FromUtf8Lossy(Tail(data))

\* File::write_date
WriteDate(inode, data) ==
    [inode EXCEPT !.data = inode.data \o FromUtf8Lossy(data)]

\* Inode::new(DIR_MODE, mount, FUSE_ROOT_ID)
RootInode(t1, t2, t3) ==
    [id |-> FUSE_ROOT_ID, size |-> SizeOfInodeAndDirectory,
     updated_at |-> t1, accessed_at |-> t2, metadata_change_at |-> t3,
     kind |-> "Directory", name |-> <<47>>, data |-> <<>>, nodes |-> <<>>,
     mode |-> RootMode, hardlinks |-> 0, uid |-> 0, gid |-> 0]

\* ------------------------------------------------------------ inode store
Put(ins, inode) ==
    [i \in (DOMAIN ins) \cup {inode.id} |-> IF i = inode.id THEN inode ELSE ins[i]]

Drop(ins, id) == [i \in (DOMAIN ins) \ {id} |-> ins[i]]

\* A handler's outcome: the store it leaves and its reply.  errno "PANIC"
\* is a handler that aborted the process and replied nothing.
Outcome(ins, sz, errno, out) ==
    [inodes |-> ins, size |-> sz, errno |-> errno, out |-> out]

\* VFFS::append_inode
AppendInode(ins, sz, inode) ==
    IF overflow_checks /\ AddOverflows(sz, inode.size)
    THEN Outcome(ins, sz, "PANIC", 0)
    ELSE Outcome(Put(ins, inode), sz + inode.size, "OK", 0)

\* VFFS::remove_inode
RemoveInode(ins, sz, inode_id) ==
    IF inode_id \in DOMAIN ins
    THEN IF overflow_checks /\ SubOverflows(sz, ins[inode_id].size)
         THEN Outcome(Drop(ins, inode_id), sz, "PANIC", 0)
         ELSE Outcome(Drop(ins, inode_id), sz - ins[inode_id].size, "OK", 0)
    ELSE Outcome(ins, sz, "OK", 0)

\* VFFS::validate_and_return_node_name
NameTooLong(name) == Len(name) > MAX_NODE_NAME_LENGTH

\* impl From<&Inode> for FileAttr
FileAttrOf(inode) ==
    [ino |-> inode.id, size |-> inode.size,
     blocks |-> (inode.size + 511) \div 512,
     atime |-> inode.accessed_at, mtime |-> inode.updated_at,
     ctime |-> inode.metadata_change_at, kind |-> inode.kind,
     perm |-> inode.mode, nlink |-> inode.hardlinks,
     uid |-> inode.uid, gid |-> inode.gid]

NoPayload == [ino |-> 0]

\* ---------------------------------------------------------------- handlers
\* VFFS::write_file_data, update_changes reading the clock as t
WriteFileData(ins, sz, inode_id, data, t) ==
    IF inode_id \notin DOMAIN ins THEN Outcome(ins, sz, "ENOENT", NoPayload)
    ELSE IF ins[inode_id].kind # "File" THEN Outcome(ins, sz, "EISDIR", NoPayload)
    ELSE LET old_size == ins[inode_id].size
             written == WriteDate(ins[inode_id], data)
             final_size == old_size + Len(data)
         IN  IF final_size > MAX_FILE_SIZE
             THEN Outcome(Put(ins, written), sz, "EFBIG", NoPayload)
             ELSE LET size_diff == final_size - old_size
                      updated == UpdateChanges([written EXCEPT !.size = final_size], t)
                      new_total_size == sz + size_diff
                  IN  IF U64Gt(new_total_size, MAX_MEMORY)
                      THEN Outcome(Put(ins, updated), sz, "ENOMEM", NoPayload)
                      ELSE Outcome(Put(ins, updated), new_total_size, "OK", NoPayload)

\* VFFS::write
WriteOutcome(ins, sz, ino, data, t) ==
    LET r == WriteFileData(ins, sz, ino, data, t)
    IN  IF r.errno = "OK"
        THEN [r EXCEPT !.out = [ino |-> ino, written |-> Len(data)]]
        ELSE r

\* The inode create builds (id from get_next_serial_number)
NewFileInode(id, name, mode, umask, uid, gid, t1, t2, t3) ==
    [id |-> id, size |-> 0,
     updated_at |-> t1, accessed_at |-> t2, metadata_change_at |-> t3,
     kind |-> "File", name |-> name, data |-> <<>>, nodes |-> <<>>,
     mode |-> MaskedMode(mode, umask), hardlinks |-> 1, uid |-> uid, gid |-> gid]

\* The inode mkdir builds
NewDirInode(id, name, mode, umask, uid, gid, t1, t2, t3) ==
    [id |-> id, size |-> 0,
     updated_at |-> t1, accessed_at |-> t2, metadata_change_at |-> t3,
     kind |-> "Directory", name |-> name, data |-> <<>>, nodes |-> <<>>,
     mode |-> MaskedMode(mode, umask), hardlinks |-> 1, uid |-> uid, gid |-> gid]

\* append_inode(new_inode), then the entry pushed onto the parent found by a
\* second lookup; err is the reply when that lookup fails
LinkNew(ins, sz, parent, new_inode, kind, err) ==
    LET a == AppendInode(ins, sz, new_inode)
    IN  IF a.errno = "PANIC" THEN Outcome(a.inodes, a.size, "PANIC", NoPayload)
        ELSE IF parent \notin DOMAIN a.inodes
        THEN Outcome(a.inodes, a.size, err, NoPayload)
        ELSE Outcome(
                Put(a.inodes,
                    AppendFileToDirectory(a.inodes[parent],
                                          <<new_inode.id, new_inode.name, kind>>)),
                a.size, "OK", FileAttrOf(new_inode))

\* VFFS::create
CreateOutcome(ins, sz, id, parent, name, mode, umask, uid, gid, t1, t2, t3) ==
    IF NameTooLong(name) THEN Outcome(ins, sz, "ENAMETOOLONG", NoPayload)
    ELSE IF parent \notin DOMAIN ins THEN Outcome(ins, sz, "ENOENT", NoPayload)
    ELSE IF ~IsDirectory(ins[parent]) THEN Outcome(ins, sz, "ENOTDIR", NoPayload)
    ELSE LinkNew(ins, sz, parent,
                 NewFileInode(id, name, mode, umask, uid, gid, t1, t2, t3),
                 "File", "ENOENT")

\* (mutant) mkdir touching the parent before it looks for the name
MkdirTouchFirst(ins, sz, id, parent, name, mode, umask, uid, gid, tp, t1, t2, t3) ==
    IF NameTooLong(name) THEN Outcome(ins, sz, "ENAMETOOLONG", NoPayload)
    ELSE IF parent \notin DOMAIN ins THEN Outcome(ins, sz, "ENOENT", NoPayload)
    ELSE IF ~IsDirectory(ins[parent]) THEN Outcome(ins, sz, "ENOTDIR", NoPayload)
    ELSE IF FindNodeByName(ins[parent].nodes, name) # 0
    THEN Outcome(Put(ins, UpdateChanges(ins[parent], tp)), sz, "EEXIST", NoPayload)
    ELSE LinkNew(Put(ins, UpdateChanges(ins[parent], tp)), sz, parent,
                 NewDirInode(id, name, mode, umask, uid, gid, t1, t2, t3),
                 "Directory", "ENOENT")

\* VFFS::mkdir; tp is the clock read by the parent's update_changes
MkdirOutcome(ins, sz, id, parent, name, mode, umask, uid, gid, tp, t1, t2, t3) ==
    IF NameTooLong(name) THEN Outcome(ins, sz, "ENAMETOOLONG", NoPayload)
    ELSE IF parent \notin DOMAIN ins THEN Outcome(ins, sz, "ENOENT", NoPayload)
    ELSE IF ~IsDirectory(ins[parent]) THEN Outcome(ins, sz, "ENOTDIR", NoPayload)
    ELSE IF FindNodeByName(ins[parent].nodes, name) # 0
    THEN Outcome(ins, sz, "EEXIST", NoPayload)
    ELSE LinkNew(Put(ins, UpdateChanges(ins[parent], tp)), sz, parent,
                 NewDirInode(id, name, mode, umask, uid, gid, t1, t2, t3),
                 "Directory", "ENOENT")

\* VFFS::lookup
LookupOutcome(ins, sz, parent, name) ==
    IF parent \notin DOMAIN ins THEN Outcome(ins, sz, "ENOENT", NoPayload)
    ELSE IF ~IsDirectory(ins[parent]) THEN Outcome(ins, sz, "ENOTDIR", NoPayload)
    ELSE LET i == FindNodeByName(ins[parent].nodes, name)
         IN  IF i = 0 THEN Outcome(ins, sz, "ENOENT", NoPayload)
             ELSE IF ins[parent].nodes[i][1] \notin DOMAIN ins
             THEN Outcome(ins, sz, "ENOENT", NoPayload)
             ELSE Outcome(ins, sz, "OK", FileAttrOf(ins[ins[parent].nodes[i][1]]))

\* unlink and rmdir: drop the entries named name from the parent, touch the
\* parent, then remove_inode(inode_id)
DropByName(ins, sz, parent, name, inode_id, t) ==
    LET touched ==
            UpdateChanges(
                IF IsDirectory(ins[parent])
                THEN [ins[parent] EXCEPT !.nodes = RetainNameNot(@, name)]
                ELSE ins[parent], t)
        r == RemoveInode(Put(ins, touched), sz, inode_id)
    IN  Outcome(r.inodes, r.size, r.errno, NoPayload)

\* VFFS::unlink
UnlinkOutcome(ins, sz, parent, name, t) ==
    IF parent \notin DOMAIN ins THEN Outcome(ins, sz, "ENOENT", NoPayload)
    ELSE IF ~IsDirectory(ins[parent]) THEN Outcome(ins, sz, "ENOTDIR", NoPayload)
    ELSE LET i == FindNodeByName(ins[parent].nodes, name)
         IN  IF i = 0 THEN Outcome(ins, sz, "ENOENT", NoPayload)
             ELSE DropByName(ins, sz, parent, name, ins[parent].nodes[i][1], t)

\* VFFS::rmdir
RmdirOutcome(ins, sz, parent, name, t) ==
    IF parent \notin DOMAIN ins THEN Outcome(ins, sz, "ENOENT", NoPayload)
    ELSE IF ~IsDirectory(ins[parent]) THEN Outcome(ins, sz, "ENOTDIR", NoPayload)
    ELSE LET i == FindNodeByName(ins[parent].nodes, name)
             inode_id == ins[parent].nodes[i][1]
         IN  IF i = 0 THEN Outcome(ins, sz, "ENOENT", NoPayload)
             ELSE IF inode_id \notin DOMAIN ins
             THEN Outcome(ins, sz, "ENOENT", NoPayload)
             ELSE IF ~IsDirectory(ins[inode_id])
             THEN Outcome(ins, sz, "ENOTDIR", NoPayload)
             ELSE IF ins[inode_id].nodes # <<>>
             THEN Outcome(ins, sz, "ENOTEMPTY", NoPayload)
             ELSE DropByName(ins, sz, parent, name, inode_id, t)

\* VFFS::rename, from "Remove source from old parent and add to new parent"
\* on: the target (0 if none) is removed, the source entry moves.  t1, t2
\* and t3 are the clock read for the parent, the new parent and the source.
RenameCommit(ins, sz, parent, name, new_parent, new_name, source, target, t1, t2, t3) ==
    LET r == IF target # 0 THEN RemoveInode(ins, sz, target)
             ELSE Outcome(ins, sz, "OK", NoPayload)
        i1 == IF target # 0 /\ new_parent \in DOMAIN r.inodes
                 /\ IsDirectory(r.inodes[new_parent])
              THEN Put(r.inodes,
                       [r.inodes[new_parent] EXCEPT !.nodes = RetainIdNot(@, target)])
              ELSE r.inodes
    IN  IF r.errno = "PANIC" THEN Outcome(r.inodes, r.size, "PANIC", NoPayload)
        \* .expect("Parent checked in Phase 1")
        ELSE IF parent \notin DOMAIN i1 THEN Outcome(i1, r.size, "PANIC", NoPayload)
        ELSE LET p1 == UpdateChanges(i1[parent], t1)
                 k == FindNodeByName(p1.nodes, name)
             IN  IF ~IsDirectory(p1) THEN Outcome(Put(i1, p1), r.size, "EIO", NoPayload)
                 \* find_node_by_name(&name_str).unwrap()
                 ELSE IF k = 0 THEN Outcome(Put(i1, p1), r.size, "PANIC", NoPayload)
                 ELSE LET file_type_cache == p1.nodes[k][3]
                          i2 == Put(i1, [p1 EXCEPT !.nodes = RetainIdNot(@, source)])
                      IN  \* .expect("New Parent checked in Phase 1")
                          IF new_parent \notin DOMAIN i2
                          THEN Outcome(i2, r.size, "PANIC", NoPayload)
                          ELSE LET np == UpdateChanges(i2[new_parent], t2)
                                   i3 == Put(i2, AppendFileToDirectory(np,
                                            <<source, new_name, file_type_cache>>))
                               IN  \* .expect("Source checked in Phase 1")
                                   IF source \notin DOMAIN i3
                                   THEN Outcome(i3, r.size, "PANIC", NoPayload)
                                   ELSE Outcome(
                                          Put(i3, [i3[source] EXCEPT
                                                     !.metadata_change_at = t3,
                                                     !.name = new_name]),
                                          r.size, "OK", NoPayload)

\* (mutant) a target never taken for the source
NeverSame(target_id, source_inode_id) == FALSE

\* target_id == source_inode_id
SameInode(target_id, source_inode_id) == target_id = source_inode_id

\* VFFS::rename
RenameOutcome(ins, sz, parent, name, new_parent, new_name, t1, t2, t3) ==
    IF NameTooLong(new_name) THEN Outcome(ins, sz, "ENAMETOOLONG", NoPayload)
    ELSE IF parent \notin DOMAIN ins THEN Outcome(ins, sz, "ENOENT", NoPayload)
    ELSE IF ~IsDirectory(ins[parent]) THEN Outcome(ins, sz, "ENOTDIR", NoPayload)
    ELSE IF FindNodeByName(ins[parent].nodes, name) = 0
    THEN Outcome(ins, sz, "ENOENT", NoPayload)
    ELSE IF new_parent \notin DOMAIN ins THEN Outcome(ins, sz, "ENOENT", NoPayload)
    ELSE IF ~IsDirectory(ins[new_parent]) THEN Outcome(ins, sz, "ENOTDIR", NoPayload)
    ELSE LET source_inode_id ==
                 ins[parent].nodes[FindNodeByName(ins[parent].nodes, name)][1]
             j == FindNodeByName(ins[new_parent].nodes, new_name)
             target_id == IF j = 0 THEN 0 ELSE ins[new_parent].nodes[j][1]
         IN  IF target_id # 0 /\ SameInode(target_id, source_inode_id)
             THEN Outcome(ins, sz, "OK", NoPayload)
             \* self.lookup_node(target_id).unwrap()
             ELSE IF target_id # 0 /\ target_id \notin DOMAIN ins
             THEN Outcome(ins, sz, "PANIC", NoPayload)
             ELSE IF target_id # 0 /\ IsDirectory(ins[target_id])
                     /\ ins[target_id].nodes # <<>>
             THEN Outcome(ins, sz, "ENOTEMPTY", NoPayload)
             ELSE RenameCommit(ins, sz, parent, name, new_parent, new_name,
                               source_inode_id, target_id, t1, t2, t3)

\* Option<T>: {} is None, {v} is Some(v)
IsSome(opt) == opt # {}
Unwrap(opt) == CHOOSE v \in opt : TRUE

\* VFFS::setattr.  atime is None, Some(<<"SpecificTime", t>>) or
\* Some(<<"Now", t>>) with t the clock time_now() reads; tc is the clock
\* read by update_changes.
SetattrOutcome(ins, sz, ino, mode, uid, gid, new_size, atime, tc) ==
    IF ino \notin DOMAIN ins THEN Outcome(ins, sz, "ENOENT", NoPayload)
    ELSE LET a == ins[ino]
             b == [a EXCEPT
                     !.mode = IF IsSome(mode) THEN AsU16(Unwrap(mode)) ELSE @,
                     !.uid = IF IsSome(uid) THEN Unwrap(uid) ELSE @,
                     !.gid = IF IsSome(gid) THEN Unwrap(gid) ELSE @,
                     !.size = IF IsSome(new_size) THEN Unwrap(new_size) ELSE @,
                     !.accessed_at = IF IsSome(atime) THEN Unwrap(atime)[2] ELSE @]
             c == UpdateChanges(b, tc)
         IN  Outcome(Put(ins, c), sz, "OK", FileAttrOf(c))

\* VFFS::getattr
GetattrOutcome(ins, sz, ino) ==
    IF ino \notin DOMAIN ins THEN Outcome(ins, sz, "ENOENT", NoPayload)
    ELSE Outcome(ins, sz, "OK", FileAttrOf(ins[ino]))

\* (mutant) everything up to the end of the content, whatever was asked
TakeAvailable(a, b) == b

\* min(size as usize, available)
Min(a, b) == IF a < b THEN a ELSE b

\* VFFS::read; the reply carries data_bytes[offset..offset + to_read]
ReadOutcome(ins, sz, inode, offset, read_size) ==
    \* assert!(offset >= 0)
    IF offset < 0 THEN Outcome(ins, sz, "PANIC", NoPayload)
    ELSE IF inode \notin DOMAIN ins THEN Outcome(ins, sz, "ENOENT", NoPayload)
    ELSE IF ins[inode].kind # "File" THEN Outcome(ins, sz, "EISDIR", NoPayload)
    ELSE LET data_bytes == ins[inode].data
         IN  IF offset >= Len(data_bytes)
             THEN Outcome(ins, sz, "OK", [ino |-> inode, data |-> <<>>])
             ELSE LET available == Len(data_bytes) - offset
                      to_read == Min(read_size, available)
                  IN  Outcome(ins, sz, "OK",
                              [ino |-> inode,
                               data |-> SubSeq(data_bytes, offset + 1, offset + to_read)])

\* libc::O_ACCMODE, libc::O_TRUNC as bit fields of a non-negative flags word
AccessMode(flags) == flags % 4

\* (mutant) O_TRUNC never seen
NoTrunc(flags) == FALSE

HasTrunc(flags) == (flags \div 512) % 2 = 1

O_RDONLY == 0
O_WRONLY == 1
O_RDWR == 2

\* VFFS::open: the inode is not looked up; the handle is the inode id
OpenOutcome(ins, sz, inode, flags) ==
    IF AccessMode(flags) = O_RDONLY
    THEN IF HasTrunc(flags) THEN Outcome(ins, sz, "EACCES", NoPayload)
         ELSE Outcome(ins, sz, "OK", [fh |-> inode, flags |-> 0])
    ELSE IF AccessMode(flags) \in {O_WRONLY, O_RDWR}
    THEN Outcome(ins, sz, "OK", [fh |-> inode, flags |-> 0])
    ELSE Outcome(ins, sz, "EINVAL", NoPayload)

\* (mutant) an entry handed out with its own position as the cursor
SameCursor(entry_offset) == entry_offset

\* reply.add(*id, entry_offset + 1, ..): the cursor of the entry after it
NextCursor(entry_offset) == entry_offset + 1

\* The loop of VFFS::readdir from the i-th entry on. room is the number of
\* entries the reply buffer still takes: reply.add refuses (buffer_full) the
\* entry that does not fit, and the loop breaks there.
RECURSIVE ReaddirLoop(_, _, _, _, _)
ReaddirLoop(nodes, i, offset, room, added) ==
    IF i > Len(nodes) THEN added
    ELSE LET entry_offset == i - 1
         IN  IF entry_offset >= offset
             THEN IF room = 0 THEN added
                  ELSE ReaddirLoop(nodes, i + 1, offset, room - 1,
                                   Append(added, [ino |-> nodes[i][1],
                                                  offset |-> NextCursor(entry_offset),
                                                  kind |-> nodes[i][3],
                                                  name |-> nodes[i][2]]))
             ELSE ReaddirLoop(nodes, i + 1, offset, room, added)

\* VFFS::readdir
ReaddirOutcome(ins, sz, ino, offset, room) ==
    IF ino \notin DOMAIN ins THEN Outcome(ins, sz, "ENOENT", NoPayload)
    ELSE IF ~IsDirectory(ins[ino]) THEN Outcome(ins, sz, "ENOTDIR", NoPayload)
    ELSE Outcome(ins, sz, "OK",
                 [ino |-> ino,
                  entries |-> ReaddirLoop(ins[ino].nodes, 1, offset, room, <<>>)])

\* ----------------------------------------------------------------- inputs
NameA == <<97>>
NameB == <<98>>
\* a name one byte longer than MAX_NODE_NAME_LENGTH
LongName == [i \in 1..(MAX_NODE_NAME_LENGTH + 1) |-> 120]
Names == {NameA, NameB, LongName}

\* request mode (S_IFREG | 0o644), umask 0o022, uid and gid of the caller
ReqModes == {33188}
ReqUmasks == {18}
ReqUids == {1000}

\* write payloads: an ASCII byte, a byte that is not valid UTF-8
WriteDatas == {<<97>>}

\* write payloads of the byte-level runs: nothing, an ASCII byte, a byte
\* that is never valid UTF-8
IoDatas == {<<>>, <<97>>, <<255>>}

\* read requests: offsets and sizes around the content lengths explored
ReadOffsets == 0..1
ReadSizes == {1, 4}

\* open flags: the four values of the access-mode field, O_TRUNC (0o1000)
\* on three of them, FMODE_EXEC (0x20) on a read-only open
OpenFlags == {0, 1, 2, 3, 512, 513, 514, 32}

\* readdir cursors, and how many entries the reply buffer takes
ReaddirOffsets == 0..(MaxId - 1)
ReaddirRooms == 0..(MaxId - 1)

\* the mode chmod sends: 0o600
SetModes == {384}

\* sizes setattr is given: truncate to 0, one past the file cap
TruncateSizes == {0, MAX_FILE_SIZE + 1}

\* The last handler served, the errno it replied ("OK" on success), the
\* payload of a successful reply and the arguments of a call that succeeded
NoCall == [op |-> "none", errno |-> "OK", out |-> NoPayload, args |-> <<>>]

Call(op, args, r) ==
    [op |-> op, errno |-> r.errno, out |-> r.out,
     args |-> IF r.errno = "OK" THEN args ELSE <<>>]

\* The store after a handler, and the process gone if it panicked
Finish(op, args, r) ==
    /\ inodes' = r.inodes
    /\ size' = r.size
    /\ alive' = (r.errno # "PANIC")
    /\ last' = Call(op, args, r)
    /\ UNCHANGED <<overflow_checks, now>>

\* ------------------------------------------------------------------ state
\* VFFS::new: the root is inserted into the map directly, size starts at 0
Init ==
    /\ now = 0
    /\ inodes = [i \in {FUSE_ROOT_ID} |-> RootInode(now, now, now)]
    /\ size = 0
    /\ serial = INODE_SERIAL_NUMER_Init
    /\ overflow_checks \in BOOLEAN
    /\ alive = TRUE
    /\ last = NoCall

\* (mutant) a counter that is read and not advanced
SerialStuck(s) == s

\* get_next_serial_number: INODE_SERIAL_NUMER += 1
NextSerial(s) == s + 1

\* create and mkdir reach get_next_serial_number only past their checks
Allocates(op, parent, name) ==
    /\ ~NameTooLong(name)
    /\ parent \in DOMAIN inodes
    /\ IsDirectory(inodes[parent])
    /\ (op = "mkdir" => FindNodeByName(inodes[parent].nodes, name) = 0)

Create(parent, name, mode, umask, uid, gid) ==
    /\ alive
    /\ Allocates("create", parent, name) => serial <= MaxId
    /\ Finish("create", <<parent, name>>,
              CreateOutcome(inodes, size, serial, parent, name, mode, umask,
                            uid, gid, now, now, now))
    /\ serial' = IF Allocates("create", parent, name) THEN NextSerial(serial)
                 ELSE serial

Mkdir(parent, name, mode, umask, uid, gid) ==
    /\ alive
    /\ Allocates("mkdir", parent, name) => serial <= MaxId
    /\ Finish("mkdir", <<parent, name>>,
              MkdirOutcome(inodes, size, serial, parent, name, mode, umask,
                           uid, gid, now, now, now, now))
    /\ serial' = IF Allocates("mkdir", parent, name) THEN NextSerial(serial)
                 ELSE serial

Lookup(parent, name) ==
    /\ alive
    /\ Finish("lookup", <<parent, name>>, LookupOutcome(inodes, size, parent, name))
    /\ UNCHANGED serial

Unlink(parent, name) ==
    /\ alive
    /\ Finish("unlink", <<parent, name>>, UnlinkOutcome(inodes, size, parent, name, now))
    /\ UNCHANGED serial

Rmdir(parent, name) ==
    /\ alive
    /\ Finish("rmdir", <<parent, name>>, RmdirOutcome(inodes, size, parent, name, now))
    /\ UNCHANGED serial

Rename(parent, name, new_parent, new_name) ==
    /\ alive
    /\ Finish("rename", <<parent, name, new_parent, new_name>>,
              RenameOutcome(inodes, size, parent, name, new_parent, new_name,
                            now, now, now))
    /\ UNCHANGED serial

\* The content buffer is explored while it is shorter than MaxContent bytes
Write(ino, data) ==
    /\ alive
    /\ (ino \in DOMAIN inodes /\ inodes[ino].kind = "File")
          => Len(inodes[ino].data) < MaxContent
    /\ Finish("write", <<ino, data>>, WriteOutcome(inodes, size, ino, data, now))
    /\ UNCHANGED serial

Setattr(ino, mode, uid, gid, new_size, atime) ==
    /\ alive
    /\ Finish("setattr", <<ino, mode, uid, gid, new_size, atime>>,
              SetattrOutcome(inodes, size, ino, mode, uid, gid, new_size, atime, now))
    /\ UNCHANGED serial

\* The kernel sends a size change (truncate) for regular files only: on a
\* directory its VFS answers EISDIR itself.
Truncate(ino, new_size) ==
    /\ ino \in DOMAIN inodes
    /\ inodes[ino].kind = "File"
    /\ Setattr(ino, {}, {}, {}, {new_size}, {})

\* setattr with no field supplied: only update_changes runs
Touch(ino) == Setattr(ino, {}, {}, {}, {}, {})

\* chmod: setattr with the mode alone
Chmod(ino, mode) == Setattr(ino, {mode}, {}, {}, {}, {})

\* utimensat on the access time: setattr with atime alone
Utimens(ino, atime) == Setattr(ino, {}, {}, {}, {}, {atime})

Getattr(ino) ==
    /\ alive
    /\ Finish("getattr", <<ino>>, GetattrOutcome(inodes, size, ino))
    /\ UNCHANGED serial

Read(ino, offset, read_size) ==
    /\ alive
    /\ Finish("read", <<ino, offset, read_size>>,
              ReadOutcome(inodes, size, ino, offset, read_size))
    /\ UNCHANGED serial

Open(ino, flags) ==
    /\ alive
    /\ Finish("open", <<ino, flags>>, OpenOutcome(inodes, size, ino, flags))
    /\ UNCHANGED serial

Readdir(ino, offset, room) ==
    /\ alive
    /\ Finish("readdir", <<ino, offset, room>>,
              ReaddirOutcome(inodes, size, ino, offset, room))
    /\ UNCHANGED serial

\* The wall clock advances between requests
Tick ==
    /\ alive
    /\ now < MaxTime
    /\ now' = now + 1
    /\ UNCHANGED <<inodes, size, serial, overflow_checks, alive, last>>

\* Every handler, sizes and contents included, at one instant of the clock
Next ==
    \/ \E parent \in Ids, name \in Names, mode \in ReqModes, umask \in ReqUmasks,
          uid \in ReqUids :
          Create(parent, name, mode, umask, uid, uid)
    \/ \E parent \in Ids, name \in Names, mode \in ReqModes, umask \in ReqUmasks,
          uid \in ReqUids :
          Mkdir(parent, name, mode, umask, uid, uid)
    \/ \E parent \in Ids, name \in Names : Lookup(parent, name)
    \/ \E parent \in Ids, name \in Names : Unlink(parent, name)
    \/ \E parent \in Ids, name \in Names : Rmdir(parent, name)
    \/ \E parent \in Ids, name \in Names, new_parent \in Ids, new_name \in Names :
          Rename(parent, name, new_parent, new_name)
    \/ \E ino \in Ids, data \in WriteDatas : Write(ino, data)
    \/ \E ino \in Ids, new_size \in TruncateSizes : Truncate(ino, new_size)
    \/ \E ino \in Ids : Touch(ino)

Spec == Init /\ [][Next]_vars

\* The handlers that change the tree, under a running clock
NextClock ==
    \/ Tick
    \/ \E parent \in Ids, name \in Names, mode \in ReqModes, umask \in ReqUmasks,
          uid \in ReqUids :
          Create(parent, name, mode, umask, uid, uid)
    \/ \E parent \in Ids, name \in Names, mode \in ReqModes, umask \in ReqUmasks,
          uid \in ReqUids :
          Mkdir(parent, name, mode, umask, uid, uid)
    \/ \E parent \in Ids, name \in Names : Unlink(parent, name)
    \/ \E parent \in Ids, name \in Names : Rmdir(parent, name)
    \/ \E parent \in Ids, name \in Names, new_parent \in Ids, new_name \in Names :
          Rename(parent, name, new_parent, new_name)
    \/ \E ino \in Ids : Touch(ino)

SpecClock == Init /\ [][NextClock]_vars

\* One file in the root, its bytes and the attributes of both inodes
NextData ==
    \/ \E mode \in ReqModes, umask \in ReqUmasks, uid \in ReqUids :
          /\ serial = INODE_SERIAL_NUMER_Init
          /\ Create(FUSE_ROOT_ID, NameA, mode, umask, uid, uid)
    \/ \E ino \in Ids, data \in IoDatas : Write(ino, data)
    \/ \E ino \in Ids, offset \in ReadOffsets, read_size \in ReadSizes :
          Read(ino, offset, read_size)
    \/ \E ino \in Ids : Getattr(ino)
    \/ \E ino \in Ids, mode \in SetModes : Chmod(ino, mode)
    \/ \E ino \in Ids, t \in Times : Utimens(ino, <<"SpecificTime", t>>)

SpecData == Init /\ [][NextData]_vars

\* The entries of the root as they come and go, listed and opened
NextDir ==
    \/ \E name \in {NameA, NameB}, mode \in ReqModes, umask \in ReqUmasks,
          uid \in ReqUids :
          Create(FUSE_ROOT_ID, name, mode, umask, uid, uid)
    \/ \E name \in {NameA, NameB}, mode \in ReqModes, umask \in ReqUmasks,
          uid \in ReqUids :
          Mkdir(FUSE_ROOT_ID, name, mode, umask, uid, uid)
    \/ \E name \in {NameA, NameB} : Unlink(FUSE_ROOT_ID, name)
    \/ \E ino \in Ids, offset \in ReaddirOffsets, room \in ReaddirRooms :
          Readdir(ino, offset, room)
    \/ \E ino \in Ids, flags \in OpenFlags : Open(ino, flags)

SpecDir == Init /\ [][NextDir]_vars

\* ------------------------------------------------------------------ claims
RECURSIVE SumSizes(_, _)
SumSizes(ins, ids) ==
    IF ids = {} THEN 0
    ELSE LET i == CHOOSE x \in ids : TRUE
         IN  ins[i].size + SumSizes(ins, ids \ {i})

Directories == {d \in DOMAIN inodes : IsDirectory(inodes[d])}
Files == {f \in DOMAIN inodes : inodes[f].kind = "File"}

\* The entries that refer to inode id: <<directory, position>>
Referrers(id) ==
    {<<d, i>> \in Directories \X (1..MaxId) :
        i <= Len(inodes[d].nodes) /\ inodes[d].nodes[i][1] = id}

\* C1: after construction and after every completed handler, total_size
\* equals the sum of inode.size over all inodes in the store, root included.
C1_Accounting ==
    alive => (size >= 0 /\ size = SumSizes(inodes, DOMAIN inodes))

\* C2: a write rejected with EFBIG or ENOMEM leaves the inode map (content,
\* size, timestamps) and total_size as they were before the call.
C2_RejectedWriteLeavesStore ==
    [][(last'.op = "write" /\ last'.errno \in {"EFBIG", "ENOMEM"})
          => (inodes' = inodes /\ size' = size)]_vars

\* C3: every entry of every directory in the store names an inode that is
\* in the store and whose payload kind is the entry's kind.
C3_StoreTreeAgreement ==
    alive =>
        \A d \in Directories : \A i \in 1..Len(inodes[d].nodes) :
            /\ inodes[d].nodes[i][1] \in DOMAIN inodes
            /\ inodes[inodes[d].nodes[i][1]].kind = inodes[d].nodes[i][3]

\* C3 witness: after two allocations a rename has just succeeded, one of the
\* two inodes has been removed from the store (by the rename's replacement of
\* its target or by an earlier removal) and the root still lists an entry.
C3_Witness ==
    /\ alive
    /\ last.op = "rename" /\ last.errno = "OK"
    /\ Cardinality(DOMAIN inodes) = 2
    /\ serial = 4
    /\ inodes[FUSE_ROOT_ID].nodes # <<>>

\* C4: no directory's children list holds two entries with the same name.
C4_NameUniqueness ==
    alive =>
        \A d \in Directories : \A i, j \in 1..Len(inodes[d].nodes) :
            i # j => inodes[d].nodes[i][2] # inodes[d].nodes[j][2]

\* C5: every File inode has size <= max_file_size.
C5_FileCapacity ==
    alive => \A f \in Files : inodes[f].size <= MAX_FILE_SIZE

\* C6: total_size (a u64) never exceeds max_memory.
C6_GlobalCapacity == ~U64Gt(size, MAX_MEMORY)

\* C7: the inode with id ROOT is in the store and is a Directory.
C7_RootImmutable ==
    /\ FUSE_ROOT_ID \in DOMAIN inodes
    /\ IsDirectory(inodes[FUSE_ROOT_ID])

\* C7 witness: every id the counter can give has been allocated and every
\* inode so created removed again; the root alone is left.
C7_Witness ==
    /\ serial = MaxId + 1
    /\ DOMAIN inodes = {FUSE_ROOT_ID}
    /\ last.op \in {"unlink", "rmdir"}
    /\ last.errno = "OK"

StructuralOps == {"create", "mkdir", "unlink", "rmdir", "rename"}
StructuralErrors == {"ENOENT", "ENOTDIR", "EEXIST", "ENOTEMPTY", "ENAMETOOLONG"}

\* C8: a create, mkdir, unlink, rmdir or rename that replies an error
\* leaves the inode map (children lists and timestamps included) and
\* total_size as they were before the call.
C8_ErrorAtomicity ==
    [][(last'.op \in StructuralOps /\ last'.errno \in StructuralErrors)
          => (inodes' = inodes /\ size' = size)]_vars

\* C8 witness: rename has replied ENOTEMPTY at a time when touching the
\* root would have shown in its timestamps.
C8_Witness ==
    /\ last.op = "rename" /\ last.errno = "ENOTEMPTY"
    /\ inodes[FUSE_ROOT_ID].updated_at < now
    /\ inodes[FUSE_ROOT_ID].nodes # <<>>

\* C9: every non-root inode in the store is referred to by exactly one
\* entry of exactly one directory.
C9_SingleParent ==
    alive =>
        \A id \in (DOMAIN inodes) \ {FUSE_ROOT_ID} : Cardinality(Referrers(id)) = 1

\* C10: after a successful create(parent, x), lookup(parent, x) replies the
\* attributes of the inode create has just allocated.
C10_CreateLookup ==
    (alive /\ last.op = "create" /\ last.errno = "OK") =>
        \A r \in Referrers(last.out.ino) :
            LET l == LookupOutcome(inodes, size, r[1], inodes[r[1]].nodes[r[2]][2])
            IN  l.errno = "OK" /\ l.out = last.out

\* C11: on a freshly created file, two successful writes of data1 and data2
\* followed by a read from offset 0 of at least len(data1) + len(data2)
\* bytes return data1 followed by data2, and each write replies the length
\* of its input.
C11_AppendRoundTrip ==
    (alive /\ last.op = "create" /\ last.errno = "OK") =>
        \A data1 \in IoDatas, data2 \in IoDatas, more \in 0..MaxContent :
            LET id == last.out.ino
                w1 == WriteOutcome(inodes, size, id, data1, now)
                w2 == WriteOutcome(w1.inodes, w1.size, id, data2, now)
                r == ReadOutcome(w2.inodes, w2.size, id, 0,
                                 Len(data1) + Len(data2) + more)
            IN  (w1.errno = "OK" /\ w2.errno = "OK") =>
                    /\ w1.out.written = Len(data1)
                    /\ w2.out.written = Len(data2)
                    /\ r.errno = "OK"
                    /\ r.out.data = data1 \o data2

\* C12: for a directory p that has an entry named a, rename(p, a, p, a)
\* replies success and leaves the inode map (children lists, positions and
\* timestamps included) and total_size unchanged.
C12_RenameSelf ==
    alive =>
        \A p \in Directories, a \in Names :
            FindNodeByName(inodes[p].nodes, a) # 0 =>
                LET r == RenameOutcome(inodes, size, p, a, p, a, now, now, now)
                IN  r.errno = "OK" /\ r.inodes = inodes /\ r.size = size

\* C12 witness: the first of the root's two entries has been renamed onto
\* itself at a time when a touch of the root would show.
C12_Witness ==
    /\ last.op = "rename" /\ last.errno = "OK"
    /\ last.args = <<FUSE_ROOT_ID, NameA, FUSE_ROOT_ID, NameA>>
    /\ Len(inodes[FUSE_ROOT_ID].nodes) = 2
    /\ inodes[FUSE_ROOT_ID].nodes[1][2] = NameA
    /\ inodes[FUSE_ROOT_ID].updated_at < now

\* The id the first entry named name in directory p refers to, 0 if none
EntryId(ins, p, name) ==
    IF FindNodeByName(ins[p].nodes, name) = 0 THEN 0
    ELSE ins[p].nodes[FindNodeByName(ins[p].nodes, name)][1]

\* The positions of the entries named name in directory p
EntriesNamed(ins, p, name) ==
    {k \in 1..Len(ins[p].nodes) : ins[p].nodes[k][2] = name}

\* C13: when new_name in new_parent resolves to an inode tgt other than src
\* that is a File or an empty Directory, rename succeeds; afterwards tgt is
\* not in the store, total_size has decreased by tgt's size, new_parent has
\* exactly one entry named new_name, it refers to src, and total_size equals
\* the sum of the inode sizes.
C13_RenameOntoTarget ==
    alive =>
        \A p \in Directories, np \in Directories, a \in Names, b \in Names :
            LET src == EntryId(inodes, p, a)
                tgt == EntryId(inodes, np, b)
                r == RenameOutcome(inodes, size, p, a, np, b, now, now, now)
            IN  (/\ src # 0 /\ tgt # 0 /\ tgt # src
                 /\ tgt \in DOMAIN inodes
                 /\ (inodes[tgt].kind = "File" \/ inodes[tgt].nodes = <<>>))
                => /\ r.errno = "OK"
                   /\ tgt \notin DOMAIN r.inodes
                   /\ ~SubOverflows(size, inodes[tgt].size)
                   /\ r.size = size - inodes[tgt].size
                   /\ Cardinality(EntriesNamed(r.inodes, np, b)) = 1
                   /\ EntryId(r.inodes, np, b) = src
                   /\ r.size = SumSizes(r.inodes, DOMAIN r.inodes)

\* C14: after a successful rename(parent, name, new_parent, new_name) where
\* new_parent had no entry named new_name, lookup(new_parent, new_name)
\* replies src's inode, and lookup(parent, name) replies ENOENT unless
\* (parent, name) is (new_parent, new_name).
C14_RenameFresh ==
    alive =>
        \A p \in Directories, np \in Directories, a \in Names, b \in Names :
            LET src == EntryId(inodes, p, a)
                r == RenameOutcome(inodes, size, p, a, np, b, now, now, now)
            IN  (src # 0 /\ EntryId(inodes, np, b) = 0 /\ r.errno = "OK")
                => /\ LookupOutcome(r.inodes, r.size, np, b).errno = "OK"
                   /\ LookupOutcome(r.inodes, r.size, np, b).out.ino = src
                   /\ (<<p, a>> # <<np, b>>
                         => LookupOutcome(r.inodes, r.size, p, a).errno = "ENOENT")

\* A handler's outcome is the reply errno with the store left as it is
Rejects(r, errno) == r.errno = errno /\ r.inodes = inodes /\ r.size = size

\* C15: lookup, create, mkdir, unlink, rmdir and rename (for name and for
\* new_name) reply ENAMETOOLONG for a name longer than 255 bytes, whatever
\* the parent is, and leave the store unchanged.
C15_NameLengthValidation ==
    alive =>
        \A parent \in Ids, other \in Ids, name \in Names,
           mode \in ReqModes, umask \in ReqUmasks, uid \in ReqUids :
            /\ Rejects(LookupOutcome(inodes, size, parent, LongName), "ENAMETOOLONG")
            /\ Rejects(CreateOutcome(inodes, size, serial, parent, LongName, mode,
                                      umask, uid, uid, now, now, now),
                       "ENAMETOOLONG")
            /\ Rejects(MkdirOutcome(inodes, size, serial, parent, LongName, mode,
                                     umask, uid, uid, now, now, now, now),
                       "ENAMETOOLONG")
            /\ Rejects(UnlinkOutcome(inodes, size, parent, LongName, now),
                       "ENAMETOOLONG")
            /\ Rejects(RmdirOutcome(inodes, size, parent, LongName, now),
                       "ENAMETOOLONG")
            /\ Rejects(RenameOutcome(inodes, size, parent, LongName, other, name,
                                      now, now, now),
                       "ENAMETOOLONG")
            /\ Rejects(RenameOutcome(inodes, size, parent, name, other, LongName,
                                      now, now, now),
                       "ENAMETOOLONG")

\* C16: mkdir(parent, name) replies EEXIST whenever parent has an entry
\* named name, file or directory; on success parent gains the one entry
\* (new_id, name, Directory) and the new inode is a Directory with no
\* children and size 0.
C16_MkdirExisting ==
    alive =>
        \A p \in Directories, name \in Names,
           mode \in ReqModes, umask \in ReqUmasks, uid \in ReqUids :
            LET r == MkdirOutcome(inodes, size, serial, p, name, mode, umask,
                                  uid, uid, now, now, now, now)
            IN  /\ EntriesNamed(inodes, p, name) # {} => Rejects(r, "EEXIST")
                /\ r.errno = "OK" =>
                      /\ r.inodes[p].nodes
                            = Append(inodes[p].nodes, <<serial, name, "Directory">>)
                      /\ serial \notin DOMAIN inodes
                      /\ serial \in DOMAIN r.inodes
                      /\ r.inodes[serial].kind = "Directory"
                      /\ r.inodes[serial].nodes = <<>>
                      /\ r.inodes[serial].size = 0

\* C16 witness: mkdir has replied EEXIST in a store whose only directory is
\* the root, so the entry in the way is a file's.
C16_Witness ==
    /\ last.op = "mkdir" /\ last.errno = "EEXIST"
    /\ Directories = {FUSE_ROOT_ID}
    /\ Files # {}

\* The removal of the entry at position k of directory d by the handler the
\* kernel sends for its kind
RemoveChild(ins, sz, d, k) ==
    IF ins[d].nodes[k][3] = "File"
    THEN UnlinkOutcome(ins, sz, d, ins[d].nodes[k][2], now)
    ELSE RmdirOutcome(ins, sz, d, ins[d].nodes[k][2], now)

C18_NoFatalHandler == alive

\* C19: the ids given by successive successful create/mkdir calls start at
\* 2 and strictly increase: the id of a new inode is the counter's value,
\* which is above the root's id and above the id of every inode in the
\* store, and the counter never goes back, so no id is given twice, not
\* even after unlink, rmdir or a rename that replaced its target.
C19_IdAllocation ==
    [][/\ serial >= 2
       /\ \A i \in DOMAIN inodes : i = FUSE_ROOT_ID \/ (2 <= i /\ i < serial)
       /\ serial' >= serial
       /\ (/\ last'.op \in {"create", "mkdir"}
           /\ last'.errno = "OK"
           /\ inodes' # inodes)
          => /\ last'.out.ino = serial
             /\ last'.out.ino # FUSE_ROOT_ID
             /\ last'.out.ino \notin DOMAIN inodes
             /\ last'.out.ino \in DOMAIN inodes'
             /\ serial' > serial]_vars

\* C19 witness: inode 2 has been removed from the store and the create or
\* mkdir that followed was given id 3.
C19_Witness ==
    /\ last.op \in {"create", "mkdir"} /\ last.errno = "OK"
    /\ last.out.ino = 3
    /\ 2 \notin DOMAIN inodes
    /\ 3 \in DOMAIN inodes

\* C20: after setattr(id, mode = M) on an inode in the store, getattr(id)
\* reports mode M, and uid, gid, size and access time, which that call did
\* not supply, are as getattr reported them before.
C20_SetattrGetattr ==
    alive =>
        \A ino \in DOMAIN inodes, M \in SetModes \cup ReqModes :
            LET before == GetattrOutcome(inodes, size, ino)
                r == SetattrOutcome(inodes, size, ino, {M}, {}, {}, {}, {}, now)
                after == GetattrOutcome(r.inodes, r.size, ino)
            IN  /\ r.errno = "OK"
                /\ after.errno = "OK"
                /\ after.out.perm = M
                /\ after.out.uid = before.out.uid
                /\ after.out.gid = before.out.gid
                /\ after.out.size = before.out.size
                /\ after.out.atime = before.out.atime

\* C20 witness: chmod 0o600 has been served for a file whose size, owner
\* and access time had all left their initial values, and they are kept.
C20_Witness ==
    /\ last.op = "setattr" /\ last.errno = "OK"
    /\ last.args = <<2, {384}, {}, {}, {}, {}>>
    /\ inodes[2].mode = 384
    /\ inodes[2].size = 1
    /\ inodes[2].uid = 1000
    /\ inodes[2].accessed_at = MaxTime

\* t + n > max for the u64 counter t (held as its signed reading) and a
\* small natural n, the sum taken in the integers
U64SumGt(t, n, max) == t < 0 \/ t + n > max

\* C21: for a File of size s and a store total t, a write of n bytes replies
\* EFBIG iff s + n > max_file_size, otherwise ENOMEM iff t + n > max_memory,
\* otherwise succeeds and leaves the inode's size s + n and total_size
\* t + n; a write to a Directory replies EISDIR, to an unknown id ENOENT.
C21_WriteDecision ==
    alive =>
        \A ino \in Ids, data \in IoDatas :
            LET r == WriteOutcome(inodes, size, ino, data, now)
                n == Len(data)
            IN  IF ino \notin DOMAIN inodes THEN r.errno = "ENOENT"
                ELSE IF inodes[ino].kind = "Directory" THEN r.errno = "EISDIR"
                ELSE IF inodes[ino].size + n > MAX_FILE_SIZE THEN r.errno = "EFBIG"
                ELSE IF U64SumGt(size, n, MAX_MEMORY) THEN r.errno = "ENOMEM"
                ELSE /\ r.errno = "OK"
                     /\ r.inodes[ino].size = inodes[ino].size + n
                     /\ r.size = size + n

\* C22: a successful rename leaves in the store the ids that were there
\* minus the replaced target's, if any; src keeps its id, size, content or
\* children list and kind, only its embedded name and metadata-change
\* timestamp may differ; total_size differs by the replaced target's size.
C22_RenameFrame ==
    alive =>
        \A p \in Directories, np \in Directories, a \in Names, b \in Names :
            LET src == EntryId(inodes, p, a)
                tgt == EntryId(inodes, np, b)
                replaced == IF tgt \in {0, src} THEN {} ELSE {tgt}
                r == RenameOutcome(inodes, size, p, a, np, b, now, now, now)
            IN  (src # 0 /\ r.errno = "OK")
                => /\ DOMAIN r.inodes = (DOMAIN inodes) \ replaced
                   /\ src \in DOMAIN r.inodes
                   /\ [r.inodes[src] EXCEPT
                          !.name = inodes[src].name,
                          !.metadata_change_at = inodes[src].metadata_change_at]
                        = inodes[src]
                   /\ r.size = size - SumSizes(inodes, replaced)

\* The list nodes without its entry at position k
WithoutEntry(nodes, k) ==
    SubSeq(nodes, 1, k - 1) \o SubSeq(nodes, k + 1, Len(nodes))

\* C23: unlink(parent, name) replies ENOTDIR if parent is not a Directory
\* and ENOENT if it has no entry named name; otherwise it succeeds whatever
\* the kind of the named inode and whether or not it has children: that
\* entry alone leaves parent's list, that inode alone leaves the store and
\* total_size decreases by its size.
C23_UnlinkContract ==
    alive =>
        \A parent \in Ids, name \in Names :
            LET r == UnlinkOutcome(inodes, size, parent, name, now)
            IN  IF parent \notin DOMAIN inodes THEN Rejects(r, "ENOENT")
                ELSE IF ~IsDirectory(inodes[parent]) THEN Rejects(r, "ENOTDIR")
                ELSE IF EntryId(inodes, parent, name) = 0 THEN Rejects(r, "ENOENT")
                ELSE LET id == EntryId(inodes, parent, name)
                         k == FindNodeByName(inodes[parent].nodes, name)
                     IN  /\ r.errno = "OK"
                         /\ DOMAIN r.inodes = (DOMAIN inodes) \ {id}
                         /\ ~SubOverflows(size, inodes[id].size)
                         /\ r.size = size - inodes[id].size
                         /\ parent # id =>
                               r.inodes[parent].nodes
                                 = WithoutEntry(inodes[parent].nodes, k)

\* new is old with some entries taken out and the others in their order
IsOrderedRemoval(old, new) ==
    new = SelectSeq(old, LAMBDA e : \E k \in 1..Len(new) : new[k] = e)

\* Every directory left in store after has the list it had in before with
\* some entries taken out, except directory d
OthersKeepOrder(before, after, d) ==
    \A x \in DOMAIN after :
        (x # d /\ x \in DOMAIN before /\ IsDirectory(before[x]))
            => IsOrderedRemoval(before[x].nodes, after[x].nodes)

EntryAt(nodes, pos) ==
    [ino |-> nodes[pos + 1][1], offset |-> pos + 1,
     kind |-> nodes[pos + 1][3], name |-> nodes[pos + 1][2]]

Max(a, b) == IF a > b THEN a ELSE b

\* C25: readdir(id, offset) on a Directory replies, in list order, the
\* entries at 0-based positions >= offset, each with cursor position + 1, up
\* to the first entry the reply buffer refuses; a second readdir from the
\* last accepted cursor replies the remaining entries, none skipped and none
\* repeated. Nothing is changed. On a File it replies ENOTDIR.
C25_ReaddirCursor ==
    \A ino \in DOMAIN inodes, offset \in ReaddirOffsets, room \in ReaddirRooms :
        LET r == ReaddirOutcome(inodes, size, ino, offset, room)
        IN  IF ~IsDirectory(inodes[ino]) THEN Rejects(r, "ENOTDIR")
            ELSE LET nodes == inodes[ino].nodes
                     e == r.out.entries
                     cursor == IF e = <<>> THEN offset ELSE e[Len(e)].offset
                     rest == ReaddirOutcome(inodes, size, ino, cursor,
                                            Len(nodes)).out.entries
                 IN  /\ Rejects(r, "OK")
                     /\ Len(e) = Max(0, Min(Len(nodes) - offset, room))
                     /\ \A j \in 1..Len(e) : e[j] = EntryAt(nodes, offset + j - 1)
                     /\ Len(e) + Len(rest) = Max(0, Len(nodes) - offset)
                     /\ \A j \in 1..Len(rest) :
                            rest[j] = EntryAt(nodes, offset + Len(e) + j - 1)

\* A listing of a two-entry root resumed at cursor 1 with room for one entry
C25_Witness ==
    /\ last.op = "readdir"
    /\ last.args = <<FUSE_ROOT_ID, 1, 1>>
    /\ Len(inodes[FUSE_ROOT_ID].nodes) = 2
    /\ Len(last.out.entries) = 1
    /\ last.out.entries[1].offset = 2
    /\ last.out.entries[1].name = inodes[FUSE_ROOT_ID].nodes[2][2]

\* C26: read(id, offset, size) with offset >= 0 on a File with content c
\* replies the empty sequence when offset >= len(c) and otherwise exactly the
\* bytes c[offset .. offset + min(size, len(c) - offset)]; on a Directory it
\* replies EISDIR, on an unknown id ENOENT. Nothing is changed.
C26_ReadSlice ==
    \A id \in Ids, offset \in 0..(MaxContent + 3), read_size \in 0..(MaxContent + 3) :
        LET r == ReadOutcome(inodes, size, id, offset, read_size)
        IN  IF id \notin DOMAIN inodes THEN Rejects(r, "ENOENT")
            ELSE IF IsDirectory(inodes[id]) THEN Rejects(r, "EISDIR")
            ELSE LET c == inodes[id].data
                     n == IF read_size < Len(c) - offset THEN read_size
                          ELSE Len(c) - offset
                 IN  /\ Rejects(r, "OK")
                     /\ offset >= Len(c) => r.out.data = <<>>
                     /\ offset < Len(c) =>
                            /\ Len(r.out.data) = n
                            /\ \A j \in 1..n : r.out.data[j] = c[offset + j]

\* A read of 4 bytes at offset 1 of a 3-byte content replied the last 2 bytes
C26_Witness ==
    /\ last.op = "read"
    /\ last.args = <<2, 1, 4>>
    /\ 2 \in DOMAIN inodes
    /\ Len(inodes[2].data) = 3
    /\ last.out.data = <<inodes[2].data[2], inodes[2].data[3]>>

\* The flag words that ask for a read-only open with O_TRUNC (0o1000), and
\* those whose access-mode field (the two low bits) is 3
ReadOnlyTruncFlags == {f \in OpenFlags : f % 4 = 0 /\ (f \div 512) % 2 = 1}
NoAccessModeFlags == {f \in OpenFlags : f % 4 = 3}

\* C27 as stated: open(id, flags) replies EACCES when the access mode is
\* read-only and O_TRUNC is set, and with every other access mode it is
\* accepted with a file handle equal to id; open changes nothing.
C27_OpenAsStated ==
    \A id \in Ids, flags \in OpenFlags :
        LET r == OpenOutcome(inodes, size, id, flags)
        IN  IF flags \in ReadOnlyTruncFlags
            THEN Rejects(r, "EACCES")
            ELSE Rejects(r, "OK") /\ r.out.fh = id

\* C27: open(id, flags) replies EACCES when the access mode is read-only and
\* O_TRUNC is set, EINVAL when the access-mode field is none of read-only,
\* write-only and read-write, and is otherwise accepted with a file handle
\* equal to id, whether or not id is in the store; open changes nothing.
C27_OpenContract ==
    \A id \in Ids, flags \in OpenFlags :
        LET r == OpenOutcome(inodes, size, id, flags)
        IN  IF flags \in ReadOnlyTruncFlags
            THEN Rejects(r, "EACCES")
            ELSE IF flags \in NoAccessModeFlags
            THEN Rejects(r, "EINVAL")
            ELSE Rejects(r, "OK") /\ r.out.fh = id

\* An open refused for its access-mode field, with entries in the root
C27_Witness ==
    /\ last.op = "open"
    /\ last.errno = "EINVAL"
    /\ inodes[FUSE_ROOT_ID].nodes # <<>>

\* C28: the mode create and mkdir store is (mode AND NOT umask) reduced to
\* the 12 permission bits, so it is always below 2^12.
C28_StoredMode ==
    \A p \in Directories, name \in {NameA, NameB}, mode \in ReqModes,
       umask \in ReqUmasks, uid \in ReqUids :
        LET c == CreateOutcome(inodes, size, serial, p, name, mode, umask,
                               uid, uid, now, now, now)
            m == MkdirOutcome(inodes, size, serial, p, name, mode, umask,
                              uid, uid, now, now, now, now)
        IN  /\ c.errno = "OK" =>
                /\ c.inodes[serial].mode = AndNot(mode, umask, 32) % 4096
                /\ c.inodes[serial].mode < 4096
            /\ m.errno = "OK" =>
                /\ m.inodes[serial].mode = AndNot(mode, umask, 32) % 4096
                /\ m.inodes[serial].mode < 4096

\* The bytes the content buffers of the inodes ids hold
RECURSIVE HeldBytes(_, _)
HeldBytes(ins, ids) ==
    IF ids = {} THEN 0
    ELSE LET i == CHOOSE x \in ids : TRUE
         IN  Len(ins[i].data) + HeldBytes(ins, ids \ {i})

\* C29: after any sequence of operations, rejected writes and setattr calls
\* with a size included, the size field of every File inode is the length of
\* its content buffer, so the bytes held by all files never exceed the
\* total_size counter, nor max_memory.
C29_SizeMatchesContent ==
    /\ \A f \in Files : inodes[f].size = Len(inodes[f].data)
    /\ size >= 0 => HeldBytes(inodes, Files) <= size
    /\ HeldBytes(inodes, Files) <= MAX_MEMORY

\* C30: in every reachable state, an inode that unlink, rmdir or rename can
\* remove from the store (one an entry of a directory resolves to) has a size
\* that total_size covers, so the subtraction of remove_inode does not
\* underflow; also after setattr changed a size or a write replied ENOMEM.
C30_NoUnderflowOnRemoval ==
    \A p \in Directories, name \in Names :
        LET k == EntryId(inodes, p, name)
        IN  (k # 0 /\ k \in DOMAIN inodes) =>
                (size < 0 \/ size >= inodes[k].size)

\* The ids the entries of d refer to (none if d is not a stored directory)
Children(ins, d) ==
    IF d \in DOMAIN ins /\ IsDirectory(ins[d])
    THEN {ins[d].nodes[i][1] : i \in 1..Len(ins[d].nodes)}
    ELSE {}

\* The ids reachable from ids through entries, ids included
RECURSIVE Closure(_, _)
Closure(ins, ids) ==
    LET more == ids \cup UNION {Children(ins, d) : d \in ids}
    IN  IF more = ids THEN ids ELSE Closure(ins, more)

\* The ids below d: reachable from d through at least one entry
Descendants(ins, d) == Closure(ins, Children(ins, d))

\* C31: the children relation over directories is acyclic after any sequence
\* of operations: rename never makes a directory an entry of itself or of
\* one of its descendants, so every directory reachable from the root before
\* a rename is reachable from the root after it.
C31_AcyclicTree ==
    /\ \A d \in Directories : d \notin Descendants(inodes, d)
    /\ \A p \in Directories, np \in Directories, a \in Names, b \in Names :
           LET r == RenameOutcome(inodes, size, p, a, np, b, now, now, now)
           IN  r.errno = "OK" =>
                   \A d \in Closure(inodes, {FUSE_ROOT_ID}) :
                       (d \in DOMAIN r.inodes /\ IsDirectory(r.inodes[d]))
                           => d \in Closure(r.inodes, {FUSE_ROOT_ID})

====
